---- MODULE Spec2Model ----
(***************************************************************************)
(* Tachyon bundle authorization pipeline: keys, value commitments, the     *)
(* bundle sighash, plan -> authorize -> build -> strip, and signature      *)
(* verification.                                                           *)
(*                                                                         *)
(* Algebra.  The Pallas group is modelled by the subgroup of prime order   *)
(* Q of the multiplicative group modulo P (P = 2Q + 1).  A point is a      *)
(* residue, point addition is multiplication modulo P, [k]B is B^k, the    *)
(* identity is 1.  Scalars (Fq) are 0..Q-1.  G, V and R are three fixed     *)
(* generators.  Q exceeds every |sum of values - value_balance| the model  *)
(* reaches, as the real Fq exceeds every sum of i64 values.                *)
(*                                                                         *)
(* RedPallas.  A signature is the pair (public key of the signing key,     *)
(* signed message); it verifies under vk over m iff it was made by the     *)
(* secret key of vk over m.  BLAKE2b is collision free: a digest is its    *)
(* personalization and its input bytes.                                    *)
(***************************************************************************)
EXTENDS Integers, Sequences, FiniteSets, TLC

\* ------------------------------------------------------------------ bounds
MaxActions == 2

\* ------------------------------------------------------------- primitives
\* pasta_curves::Fq (scalar field order) and the group modulus.
Q == 23
P == 47

Fq == 0 .. (Q - 1)

FqAdd(a, b) == (a + b) % Q
FqNeg(a) == (Q - a) % Q

\* Fq::from(u64)
FqFromU64(u) == u % Q

\* Point addition, negation, subtraction, scalar multiplication.
Identity == 1
PointAdd(p1, p2) == (p1 * p2) % P

\* [k]B by repeated addition, tabulated once for every point and scalar.
RECURSIVE RepeatedAdd(_, _)
RepeatedAdd(k, B) == IF k = 0 THEN Identity ELSE PointAdd(B, RepeatedAdd(k - 1, B))

ScalarMulTable == [B \in 1 .. (P - 1) |-> [k \in Fq |-> RepeatedAdd(k, B)]]

ScalarMul(k, B) == ScalarMulTable[B][k]

PointNeg(p1) == ScalarMul(Q - 1, p1)
PointSub(p1, p2) == PointAdd(p1, PointNeg(p2))

\* SpendAuth basepoint G; value commitment generators V and R (R is also the
\* Binding basepoint).
SpendAuthG == 4
VALUE_COMMIT_V == 9
VALUE_COMMIT_R == 16

\* The compressed encoding of a point: the coordinate shared by a point and
\* its negation, and the y-sign bit in the top bit of the last byte.
PointX(p1) == IF p1 <= PointNeg(p1) THEN p1 ELSE PointNeg(p1)
PointYSign(p1) == IF p1 > PointNeg(p1) THEN 1 ELSE 0

\* GroupEncoding::to_bytes / VerificationKey -> [u8; 32]: fixed width, the
\* last byte carries the y-sign bit above the coordinate's high digits.
PointBytes(p1) == << PointX(p1) % 8, (PointX(p1) \div 8) + 8 * PointYSign(p1) >>

\* i64::to_le_bytes: eight two's-complement bytes, least significant first.
RECURSIVE LeBytes(_, _)
LeBytes(v, n) == IF n = 0 THEN << >> ELSE << v % 256 >> \o LeBytes(v \div 256, n - 1)

I64LeBytes(v) == LeBytes(v, 8)

\* reddsa::VerificationKey::from(&SigningKey<SpendAuth>): [sk]G
SpendAuthPublic(s) == ScalarMul(s, SpendAuthG)

\* reddsa::VerificationKey::from(&SigningKey<Binding>): [sk]R
BindingPublic(s) == ScalarMul(s, VALUE_COMMIT_R)

\* reddsa sign / verify.
RedSign(vk, msg) == [key |-> vk, msg |-> msg]
RedVerify(vk, msg, sig) == sig.key = vk /\ sig.msg = msg

\* ------------------------------------------------------------------- keys
SpendingKeys == {0, 1}

\* PrfExpand::with: BLAKE2b-512("Zcash_ExpandSeed", sk || domain_separator),
\* reduced by from_uniform_bytes.
PrfExpandASK == 9
PrfExpandWith(domain_separator, sk) == (7 * sk + domain_separator) % Q

\* A derivation that keeps the PRF output as it is.
derive_auth_private_unnormalized(sk) == PrfExpandWith(PrfExpandASK, sk)

\* SpendingKey::derive_auth_private: ask with sign normalization.
derive_auth_private(sk) ==
    LET ask == PrfExpandWith(PrfExpandASK, sk)
        ak  == PointBytes(SpendAuthPublic(ask))
    IN  IF ak[2] \div 8 = 1 THEN FqNeg(ask) ELSE ask

\* SpendAuthorizingKey::derive_auth_public: ak = [ask]G
derive_auth_public(ask) == SpendAuthPublic(ask)

\* SpendingKey::derive_proof_private: pak.ak
derive_proof_private(sk) == derive_auth_public(derive_auth_private(sk))

\* Per-action entropy theta and the two alpha personalizations.
Thetas == {0, 1}
SPEND_ALPHA_PERSONALIZATION == "Tachyon-Spend"
OUTPUT_ALPHA_PERSONALIZATION == "Tachyon-Output"

\* A derivation that hashes theta and cm without the personalization.
derive_alpha_unpersonalized(personalization, theta, cm) ==
    (3 + 5 * (2 * theta + 4 * cm)) % Q

\* A derivation that hashes the personalization and cm without theta.
derive_alpha_without_theta(personalization, theta, cm) ==
    LET tag == IF personalization = "Tachyon-Spend" THEN 0 ELSE 1
    IN  (3 + 5 * (tag + 4 * cm)) % Q

\* derive_alpha: ToScalar(BLAKE2b-512(personalization, theta || cm)).
derive_alpha(personalization, theta, cm) ==
    LET tag == IF personalization = SPEND_ALPHA_PERSONALIZATION THEN 0 ELSE 1
    IN  (3 + 5 * (tag + 2 * theta + 4 * cm)) % Q

spend_randomizer(theta, cm) == derive_alpha(SPEND_ALPHA_PERSONALIZATION, theta, cm)
output_randomizer(theta, cm) == derive_alpha(OUTPUT_ALPHA_PERSONALIZATION, theta, cm)

\* Signing key that forgets the randomizer.
derive_action_private_unrandomized(ask, alpha) == ask

\* SpendAuthorizingKey::derive_action_private: rsk = ask + alpha
derive_action_private(ask, alpha) == FqAdd(ask, alpha)

\* ActionSigningKey::from_output_alpha: rsk = alpha
from_output_alpha(alpha) == alpha

\* ActionSigningKey::derive_action_public: rk = [rsk]G
rsk_derive_action_public(rsk) == SpendAuthPublic(rsk)

\* A spend rk that leaves ak out.
derive_action_public_without_ak(ak, alpha) == ScalarMul(alpha, SpendAuthG)

\* SpendValidatingKey::derive_action_public: rk = ak + [alpha]G
derive_action_public_binding_base(ak, alpha) ==
    PointAdd(ak, ScalarMul(alpha, VALUE_COMMIT_R))

derive_action_public(ak, alpha) == PointAdd(ak, ScalarMul(alpha, SpendAuthG))

\* ActionRandomizer<Output>::derive_rk: rk = [alpha]G
derive_rk(alpha) == rsk_derive_action_public(from_output_alpha(alpha))

\* ActionSigningKey::sign
ActionSigningKeySign(rsk, sh) == RedSign(SpendAuthPublic(rsk), sh)

\* ActionVerificationKey::verify
RkVerify(rk, sh, sig) == RedVerify(rk, sh, sig)

\* BindingSigningKey::sign
BindingSigningKeySign(bsk, sh) == RedSign(BindingPublic(bsk), sh)

\* BindingSigningKey::derive_binding_public
derive_binding_public(bsk) == BindingPublic(bsk)

\* BindingVerificationKey::verify
BvkVerify(bvk, sh, sig) == RedVerify(bvk, sh, sig)

\* ----------------------------------------------------- value commitments
\* A conversion that keeps the magnitude and drops the sign.
signed_to_scalar_magnitude(value) ==
    FqFromU64(IF value >= 0 THEN value ELSE -value)

\* signed_to_scalar
signed_to_scalar(value) ==
    IF value >= 0 THEN FqFromU64(value) ELSE FqNeg(FqFromU64(-value))

\* A commitment that puts the trapdoor on the value generator as well.
commit_one_generator(rcv, value) ==
    PointAdd(ScalarMul(signed_to_scalar(value), VALUE_COMMIT_V),
             ScalarMul(rcv, VALUE_COMMIT_V))

\* CommitmentTrapdoor::commit: cv = [v]V + [rcv]R
commit(rcv, value) ==
    PointAdd(ScalarMul(signed_to_scalar(value), VALUE_COMMIT_V),
             ScalarMul(rcv, VALUE_COMMIT_R))

\* Commitment::balance: the commitment with the default (zero) trapdoor.
balance_of_magnitude(value) == commit(0, IF value >= 0 THEN value ELSE -value)
balance(value) == commit(0, value)

\* iter::Sum for Commitment: fold from the identity.
RECURSIVE CommitmentSum(_)
CommitmentSum(cvs) ==
    IF cvs = << >> THEN Identity
    ELSE PointAdd(CommitmentSum(SubSeq(cvs, 1, Len(cvs) - 1)), cvs[Len(cvs)])

\* BindingVerificationKey::derive: bvk = (sum of cv_i) - balance(value_balance)
BvkDerive(actions, value_balance) ==
    PointSub(CommitmentSum([i \in 1 .. Len(actions) |-> actions[i].cv]),
             balance(value_balance))

\* ---------------------------------------------------------- bundle sighash
SIGHASH_PERSONALIZATION == "Tachyon-BndlHash"

RECURSIVE EffectingBytes(_)
EffectingBytes(effecting_data) ==
    IF effecting_data = << >> THEN << >>
    ELSE PointBytes(Head(effecting_data)[1]) \o PointBytes(Head(effecting_data)[2])
         \o EffectingBytes(Tail(effecting_data))

\* sighash: BLAKE2b-512("Tachyon-BndlHash", cv_1 || rk_1 || ... || v_balance)
sighash_without_balance(effecting_data, value_balance) ==
    [personal |-> SIGHASH_PERSONALIZATION, input |-> EffectingBytes(effecting_data)]

sighash(effecting_data, value_balance) ==
    [personal |-> SIGHASH_PERSONALIZATION,
     input    |-> EffectingBytes(effecting_data) \o I64LeBytes(value_balance)]

\* ------------------------------------------------------------------ notes
\* Note values the plans are drawn from.
NoteValues == {1, 2}

\* Note::commitment (rcm.commit): the stub returns Fp::ZERO for every note.
NoteCommitment(note) == 0

\* Into<i64> for Value
ValueIntoI64(value) == value

\* commit_spend / commit_output: positive value for a spend, negated for an
\* output.
commit_spend(rcv, note) == commit(rcv, ValueIntoI64(note.value))

\* An output commitment that does not negate the value.
commit_output_unnegated(rcv, note) == commit(rcv, ValueIntoI64(note.value))

commit_output(rcv, note) == commit(rcv, -ValueIntoI64(note.value))

\* ----------------------------------------------------------- action plans
\* action::Plan::spend: rk = ak + [alpha]G from the public key ak.
ActionPlanSpend(note, theta, ak) ==
    [effect |-> "Spend", note |-> note, theta |-> theta,
     rk |-> derive_action_public(ak, spend_randomizer(theta, NoteCommitment(note)))]

\* action::Plan::output: rk = [alpha]G.
ActionPlanOutput(note, theta) ==
    [effect |-> "Output", note |-> note, theta |-> theta,
     rk |-> derive_rk(output_randomizer(theta, NoteCommitment(note)))]

Notes == [value : NoteValues]

ActionPlans(ak) ==
    {ActionPlanSpend(n, t, ak) : n \in Notes, t \in Thetas}
    \cup {ActionPlanOutput(n, t) : n \in Notes, t \in Thetas}

\* The signed value an action contributes to the balance.
SignedValue(planned) ==
    IF planned.effect = "Spend" THEN ValueIntoI64(planned.note.value)
    ELSE -ValueIntoI64(planned.note.value)

RECURSIVE SumSigned(_)
SumSigned(planned) ==
    IF planned = << >> THEN 0 ELSE SignedValue(Head(planned)) + SumSigned(Tail(planned))

\* UnsignedAction::spend: cv from the note value and the drawn rcv, rk from ak
\* and the spend alpha; the second component is the ActionPrivate witness.
UnsignedActionSpend(note, theta, ak, rcv) ==
    LET alpha == spend_randomizer(theta, NoteCommitment(note))
    IN  << [cv |-> commit(rcv, ValueIntoI64(note.value)),
            rk |-> derive_action_public(ak, alpha)],
           [alpha |-> alpha, note |-> note, rcv |-> rcv] >>

\* UnsignedAction::output: cv of the negated value, rk = [alpha]G.
UnsignedActionOutput(note, theta, rcv) ==
    LET alpha == output_randomizer(theta, NoteCommitment(note))
    IN  << [cv |-> commit(rcv, -ValueIntoI64(note.value)),
            rk |-> derive_rk(alpha)],
           [alpha |-> alpha, note |-> note, rcv |-> rcv] >>

\* ------------------------------------------------------------ bundle plan
\* Plan::new
PlanNew(actions, value_balance) == [actions |-> actions, value_balance |-> value_balance]

\* Plan::commit: one (cv, rcv) per action, rcv drawn from the rng.
PlanCommit(plan, rcvs) ==
    [i \in 1 .. Len(plan.actions) |->
        << IF plan.actions[i].effect = "Spend"
           THEN commit_spend(rcvs[i], plan.actions[i].note)
           ELSE commit_output(rcvs[i], plan.actions[i].note),
           rcvs[i] >>]

Min(a, b) == IF a <= b THEN a ELSE b

\* Plan::sighash: (cv, rk) pairs from zip(actions, commitments).
PlanSighash(plan, commitments) ==
    sighash([i \in 1 .. Min(Len(plan.actions), Len(commitments)) |->
                << commitments[i][1], plan.actions[i].rk >>],
            plan.value_balance)

\* ---------------------------------------------------------------- custody
\* ActionRandomizer<Spend>::sign: rsk = ask + alpha signs the sighash.
SpendRandomizerSign(alpha, ask, sh) ==
    ActionSigningKeySign(derive_action_private(ask, alpha), sh)

\* ActionRandomizer<Output>::sign: rsk = alpha signs the sighash.
OutputRandomizerSign(alpha, sh) ==
    ActionSigningKeySign(from_output_alpha(alpha), sh)

\* A custody that signs, for each spend, a digest of that action alone.
LocalAuthorizePerAction(ask, unsigned_actions, value_balance, spends) ==
    [k \in 1 .. Len(spends) |->
        SpendRandomizerSign(spend_randomizer(spends[k].theta, spends[k].cm), ask,
            sighash(<< unsigned_actions[spends[k].action_index + 1] >>, value_balance))]

\* Local::authorize: the sighash is computed once from all effecting data,
\* then every spend request is signed over it.
LocalAuthorize(ask, unsigned_actions, value_balance, spends) ==
    LET sh == sighash(unsigned_actions, value_balance)
    IN  [k \in 1 .. Len(spends) |->
            SpendRandomizerSign(spend_randomizer(spends[k].theta, spends[k].cm), ask, sh)]

\* Number of spends among the first i actions of a plan.
RECURSIVE SpendRank(_, _)
SpendRank(planned, i) ==
    IF i = 0 THEN 0
    ELSE SpendRank(planned, i - 1) + (IF planned[i].effect = "Spend" THEN 1 ELSE 0)

\* The spend requests of a plan, in plan order.
RECURSIVE SpendRequests(_, _)
SpendRequests(planned, i) ==
    IF i > Len(planned) THEN << >>
    ELSE (IF planned[i].effect = "Spend"
          THEN << [action_index |-> i - 1, theta |-> planned[i].theta,
                   cm |-> NoteCommitment(planned[i].note)] >>
          ELSE << >>) \o SpendRequests(planned, i + 1)

\* Custody::authorize(plan, rng) for Local: commit every action, then sign
\* every action over the sighash of the committed plan.
AuthorizePlan(ask, plan, rcvs) ==
    LET commitments == PlanCommit(plan, rcvs)
        unsigned    == [i \in 1 .. Len(plan.actions) |->
                           << commitments[i][1], plan.actions[i].rk >>]
        spend_sigs  == LocalAuthorize(ask, unsigned, plan.value_balance,
                                      SpendRequests(plan.actions, 1))
        sh          == PlanSighash(plan, commitments)
    IN  [sigs |-> [i \in 1 .. Len(plan.actions) |->
                      IF plan.actions[i].effect = "Spend"
                      THEN spend_sigs[SpendRank(plan.actions, i)]
                      ELSE OutputRandomizerSign(
                               output_randomizer(plan.actions[i].theta,
                                                 NoteCommitment(plan.actions[i].note)),
                               sh)],
         commitments |-> commitments]

\* ------------------------------------------------------------------ stamps
\* The unit marker of a stripped bundle.
Stampless == [unit |-> "Stampless"]

\* Proof::create for one action: the proof and the witness's tachygram
\* (nullifier for a spend, note commitment for an output; both stubs give
\* Fp::ZERO).
Tachygram(witness) == 0

\* Stamp::prove_action
prove_action(witness, action, anchor) ==
    [tachygrams |-> << Tachygram(witness) >>, anchor |-> anchor, proof |-> "Proof"]

\* Proof::merge: the stub keeps the left proof.
ProofMerge(left, right) == left

Max(a, b) == IF a >= b THEN a ELSE b

\* A merge that lists the other stamp's tachygrams first.
StampMergeRightFirst(left, right) ==
    [tachygrams |-> right.tachygrams \o left.tachygrams,
     anchor     |-> Max(left.anchor, right.anchor),
     proof      |-> ProofMerge(left.proof, right.proof)]

\* A merge that keeps the tachygrams of the stamp it is called on only.
StampMergeKeepLeft(left, right) ==
    [tachygrams |-> left.tachygrams,
     anchor     |-> Max(left.anchor, right.anchor),
     proof      |-> ProofMerge(left.proof, right.proof)]

\* Stamp::merge (prove_merge): later anchor, concatenated tachygrams.
StampMerge(left, right) ==
    [tachygrams |-> left.tachygrams \o right.tachygrams,
     anchor     |-> Max(left.anchor, right.anchor),
     proof      |-> ProofMerge(left.proof, right.proof)]

\* Proof::verify: the results the Ragu verifier can give.  The stub in the
\* source always answers Ok; the failing answer stands for the verifier the
\* stub marks the place of.
ProofVerify(proof, actions, tachygrams, anchor) == {"Ok", "ValidationError"}

\* verify_stamp: maps a verifier error to BuildError::ProofInvalid.
verify_stamp(verdict) == IF verdict = "Ok" THEN "Ok" ELSE "ProofInvalid"

\* ------------------------------------------------------------------ bundle
\* Bundle::sighash
BundleSighash(b) ==
    sighash([i \in 1 .. Len(b.actions) |-> << b.actions[i].cv, b.actions[i].rk >>],
            b.value_balance)

\* A loop that returns after the first action.
VerifyActionsFirst(actions, sh) ==
    IF actions = << >> THEN "Ok"
    ELSE IF ~RkVerify(Head(actions).rk, sh, Head(actions).sig) THEN "InvalidSignature"
    ELSE "Ok"

\* The loop of verify_signatures: the first failing action ends it.
RECURSIVE VerifyActions(_, _)
VerifyActions(actions, sh) ==
    IF actions = << >> THEN "Ok"
    ELSE IF ~RkVerify(Head(actions).rk, sh, Head(actions).sig) THEN "InvalidSignature"
    ELSE VerifyActions(Tail(actions), sh)

\* A verification that also wants a proof in the stamp slot.
verify_signatures_with_stamp(b) ==
    LET bvk == BvkDerive(b.actions, b.value_balance)
        sh  == sighash([i \in 1 .. Len(b.actions) |->
                           << b.actions[i].cv, b.actions[i].rk >>], b.value_balance)
    IN  IF "proof" \notin DOMAIN b.stamp THEN "InvalidSignature"
        ELSE IF ~BvkVerify(bvk, sh, b.binding_sig) THEN "InvalidSignature"
        ELSE IF \E i \in 1 .. Len(b.actions) :
                    ~RkVerify(b.actions[i].rk, sh, b.actions[i].sig)
             THEN "InvalidSignature"
        ELSE "Ok"

\* Bundle::verify_signatures
verify_signatures(b) ==
    LET bvk == BvkDerive(b.actions, b.value_balance)
        sh  == BundleSighash(b)
    IN  IF ~BvkVerify(bvk, sh, b.binding_sig) THEN "InvalidSignature"
        ELSE VerifyActions(b.actions, sh)

\* A strip that rebuilds the bundle with a default value balance.
strip_default_balance(b) ==
    << [actions |-> b.actions, value_balance |-> 0,
        binding_sig |-> b.binding_sig, stamp |-> Stampless],
       b.stamp >>

\* Stamped::strip
strip(b) ==
    << [actions |-> b.actions, value_balance |-> b.value_balance,
        binding_sig |-> b.binding_sig, stamp |-> Stampless],
       b.stamp >>

\* BindingSigningKey::try_from(Fq): reddsa accepts every canonical scalar.
BindingSigningKeyTryFrom(el) == IF el \in Fq THEN "Ok" ELSE "MalformedSigningKey"

\* ----------------------------------------------------------- state machine
\* Anchors a build may be given.
Anchors == {0}

\* Distance of the declared value balance from the sum of the signed values.
BalanceOffsets == {0, 1}

\* Trapdoors the rng hands to Plan::commit for n actions: all one, one and
\* its negation alternating, all zero.
RcvSamples(n) ==
    {[i \in 1 .. n |-> r[((i - 1) % 2) + 1]] : r \in {<< 1, 1 >>, << 1, Q - 1 >>, << 0, 0 >>}}

\* Absent values are the empty sequence, present ones a one-element sequence.
None == << >>
Some(x) == << x >>

\* ------------------------------------------------------------ note values
\* A u64 as four 16-bit limbs, most significant first.

\* x < y on limbs.
RECURSIVE U64Less(_, _)
U64Less(x, y) ==
    IF x = << >> THEN FALSE
    ELSE IF Head(x) # Head(y) THEN Head(x) < Head(y)
    ELSE U64Less(Tail(x), Tail(y))

\* x <= y on limbs.
U64Leq(x, y) == x = y \/ U64Less(x, y)

\* NOTE_VALUE_MAX = 2_100_000_000_000_000 = 0x0007_75F0_5A07_4000.
NOTE_VALUE_MAX == << 7, 30192, 23047, 16384 >>

\* An assertion that leaves the bound itself out.
ValueAssertStrict(value) == U64Less(value, NOTE_VALUE_MAX)

\* An assertion that lets every u64 through.
ValueAssertAny(value) == U64Leq(value, << 65535, 65535, 65535, 65535 >>)

\* The assertion of From<u64> for Value: value <= NOTE_VALUE_MAX.
ValueAssert(value) == U64Leq(value, NOTE_VALUE_MAX)

\* u64 inputs around the bound in every limb, zero and u64::MAX included.
U64Samples ==
    {<< a, b, c, d >> : a \in {0, 7, 8, 65535},
                        b \in {0, 30192, 30193, 65535},
                        c \in {0, 23047, 23048, 65535},
                        d \in {0, 16383, 16384, 16385, 65535}}

\* i64::try_from(u64): the number itself when it is below 2^63, an error
\* otherwise.  An i64 is kept as the four limbs of its two's complement.
I64TryFromU64(u) == IF u[1] < 32768 THEN << u >> ELSE << >>

\* x + 1 on limbs, modulo 2^64.
U64AddOne(x) ==
    LET c4 == (x[4] + 1) \div 65536
        c3 == (x[3] + c4) \div 65536
        c2 == (x[2] + c3) \div 65536
    IN  << (x[1] + c2) % 65536, (x[2] + c3) % 65536, (x[3] + c4) % 65536,
           (x[4] + 1) % 65536 >>

\* i64::neg: the two's complement; it overflows for i64::MIN alone.
I64MIN == << 32768, 0, 0, 0 >>
I64WrappingNeg(x) == U64AddOne([i \in 1 .. 4 |-> 65535 - x[i]])

VARIABLES
    amount,             \* the u64 handed to Value::from
    note_value,         \* the note::Value constructed from it
    value_i64,          \* the i64 that Into<i64> for Value returned
    negated,            \* the negated i64 of an output's value commitment
    sk,                 \* the user's spending key
    local,              \* custody::Local.ask
    pc,                 \* position in the plan / authorize / build pipeline
    plan,               \* bundle::Plan
    auth,               \* AuthorizationData returned by custody
    anchor,             \* anchor handed to Plan::build
    actions_witnesses,  \* pairs handed to Stamped::build
    bsk,                \* binding signing key inside Stamped::build
    stamp,              \* merged stamp inside Stamped::build
    verified,           \* what verify_stamp returned inside Stamped::build
    result,             \* outcome of Plan::build
    built,              \* the bundle as Plan::build returned it
    bundle,             \* the bundle as its holder has it now
    stripped,           \* outcome of Stamped::strip
    aggregate,          \* the aggregate Stamped bundle of a block
    agg_before,         \* the aggregate bundle before any merge
    adjuncts,           \* the stripped adjunct bundles of the block
    header,             \* StampDigest of the aggregate's proof
    merge_log,          \* the merges made, oldest first
    rng,                \* the bytes a seeded rng yields, in 32-byte chunks
    composable,         \* the bundle of the step-by-step flow
    plan_built,         \* the bundle of the Plan / Custody flow
    stamp_vec           \* the Vec<Stamp> of the merge loop of Stamped::build

value_vars == << amount, note_value, value_i64, negated >>

agg_vars == << aggregate, agg_before, adjuncts, header, merge_log >>

flow_vars == << rng, composable, plan_built >>

vars == << amount, note_value, value_i64, negated, sk, local, pc, plan, auth, anchor, actions_witnesses, bsk, stamp,
           verified, result, built, bundle, stripped,
           aggregate, agg_before, adjuncts, header, merge_log,
           rng, composable, plan_built, stamp_vec >>

\* A wallet with a spending key and a Local custody holding some ask.
Init ==
    /\ sk \in SpendingKeys
    /\ local \in {derive_auth_private(k) : k \in SpendingKeys}
    /\ pc = "plan"
    /\ plan = None
    /\ auth = None
    /\ anchor = 0
    /\ actions_witnesses = << >>
    /\ bsk = 0
    /\ stamp = None
    /\ verified = "Pending"
    /\ result = "Pending"
    /\ built = None
    /\ bundle = None
    /\ stripped = None
    /\ amount = << 0, 0, 0, 1 >>
    /\ note_value = Some(amount)
    /\ value_i64 = None
    /\ negated = None
    /\ aggregate = None
    /\ agg_before = None
    /\ adjuncts = << >>
    /\ header = None
    /\ merge_log = << >>
    /\ rng = << >>
    /\ composable = None
    /\ plan_built = None
    /\ stamp_vec = << >>

\* action::Plan::spend / output for the wallet's notes, then Plan::new.
NewPlan ==
    /\ pc = "plan"
    /\ \E n \in 0 .. MaxActions :
       \E planned \in [1 .. n -> ActionPlans(derive_proof_private(sk))] :
       \E off \in BalanceOffsets :
           plan' = Some(PlanNew(planned, SumSigned(planned) + off))
    /\ pc' = "authorize"
    /\ UNCHANGED << stamp_vec, flow_vars, value_vars, agg_vars, verified, sk, local, auth, anchor, actions_witnesses, bsk, stamp,
                    result, built, bundle, stripped >>

\* local.authorize(&plan, rng)
Authorize ==
    /\ pc = "authorize"
    /\ \E rcvs \in RcvSamples(Len(plan[1].actions)) :
           auth' = Some(AuthorizePlan(local, plan[1], rcvs))
    /\ pc' = "build"
    /\ UNCHANGED << stamp_vec, flow_vars, value_vars, agg_vars, verified, sk, local, plan, anchor, actions_witnesses, bsk, stamp,
                    result, built, bundle, stripped >>

\* The witness alpha Plan::build re-derives from theta and the note commitment.
WitnessAlpha(planned) ==
    IF planned.effect = "Spend"
    THEN spend_randomizer(planned.theta, NoteCommitment(planned.note))
    ELSE output_randomizer(planned.theta, NoteCommitment(planned.note))

\* Plan::build up to its call of Stamped::build: zip actions, sigs and
\* commitments (the shortest list decides the length).
PairActions(pl, au) ==
    [i \in 1 .. Min(Min(Len(pl.actions), Len(au.sigs)), Len(au.commitments)) |->
        << [cv |-> au.commitments[i][1], rk |-> pl.actions[i].rk, sig |-> au.sigs[i]],
           [rcv |-> au.commitments[i][2], note |-> pl.actions[i].note,
            alpha |-> WitnessAlpha(pl.actions[i])] >>]

PlanBuild ==
    /\ pc = "build"
    /\ actions_witnesses' = PairActions(plan[1], auth[1])
    /\ anchor' \in Anchors
    /\ pc' = "binding_key"
    /\ UNCHANGED << stamp_vec, flow_vars, value_vars, agg_vars, verified, sk, local, plan, auth, bsk, stamp, result, built, bundle, stripped >>

\* The actions and the witnesses Stamped::build splits its input into.
BuildActions == [i \in 1 .. Len(actions_witnesses) |-> actions_witnesses[i][1]]
BuildWitnesses == [i \in 1 .. Len(actions_witnesses) |-> actions_witnesses[i][2]]

\* An accumulation that assigns where it should add.
RcvSumLast(witnesses) ==
    IF witnesses = << >> THEN 0 ELSE witnesses[Len(witnesses)].rcv

\* rcv_sum of Stamped::build.
RECURSIVE RcvSum(_)
RcvSum(witnesses) ==
    IF witnesses = << >> THEN 0
    ELSE FqAdd(RcvSum(SubSeq(witnesses, 1, Len(witnesses) - 1)),
               witnesses[Len(witnesses)].rcv)

\* Stamped::build, the binding key: accumulate bsk, convert it, and compare
\* [bsk]R with the validator-side bvk.  The comparison is a debug assertion:
\* a build with assertions panics on a mismatch, one without goes on.
BuildBindingKey ==
    /\ pc = "binding_key"
    /\ LET rcv_sum == RcvSum(BuildWitnesses)
       IN  IF BindingSigningKeyTryFrom(rcv_sum) # "Ok"
           THEN /\ result' = "BalanceKey"
                /\ pc' = "done"
                /\ bsk' = bsk
           ELSE \E debug_assertions \in BOOLEAN :
                IF /\ debug_assertions
                   /\ derive_binding_public(rcv_sum)
                        # BvkDerive(BuildActions, plan[1].value_balance)
                THEN /\ result' = "PanicBskBvkMismatch"
                     /\ pc' = "done"
                     /\ bsk' = rcv_sum
                ELSE /\ result' = result
                     /\ pc' = "stamp"
                     /\ bsk' = rcv_sum
    /\ UNCHANGED << stamp_vec, flow_vars, value_vars, agg_vars, verified, sk, local, plan, auth, anchor, actions_witnesses, stamp,
                    built, bundle, stripped >>

\* The merge loop of Stamped::build: pop right, pop left, push the merge.
RECURSIVE MergeStamps(_)
MergeStamps(stamps) ==
    IF Len(stamps) <= 1 THEN stamps
    ELSE MergeStamps(SubSeq(stamps, 1, Len(stamps) - 2)
                     \o << StampMerge(stamps[Len(stamps) - 1], stamps[Len(stamps)]) >>)

\* Stamped::build, the stamp: one proof per action, merged down to one; an
\* empty list has no stamp to pop and the expect panics.
BuildStamp ==
    /\ pc = "stamp"
    /\ LET stamps == MergeStamps([i \in 1 .. Len(actions_witnesses) |->
                          prove_action(BuildWitnesses[i], BuildActions[i], anchor)])
       IN  IF stamps = << >>
           THEN /\ result' = "PanicNoAction"
                /\ pc' = "done"
                /\ stamp' = stamp
           ELSE /\ stamp' = Some(stamps[1])
                /\ pc' = "verify_stamp"
                /\ result' = result
    /\ UNCHANGED << stamp_vec, flow_vars, value_vars, agg_vars, verified, sk, local, plan, auth, anchor, actions_witnesses, bsk,
                    built, bundle, stripped >>

\* A build that looks at the verdict and signs anyway.
BuildVerifyStampUnchecked ==
    /\ pc = "verify_stamp"
    /\ \E verdict \in ProofVerify(stamp[1].proof, BuildActions,
                                  stamp[1].tachygrams, stamp[1].anchor) :
           verified' = verify_stamp(verdict)
    /\ pc' = "sign"
    /\ UNCHANGED << stamp_vec, flow_vars, value_vars, agg_vars, sk, local, plan, auth, anchor, actions_witnesses, bsk, stamp,
                    result, built, bundle, stripped >>

\* Stamped::build, verify_stamp(&stamp, &actions)?
BuildVerifyStamp ==
    /\ pc = "verify_stamp"
    /\ \E verdict \in ProofVerify(stamp[1].proof, BuildActions,
                                  stamp[1].tachygrams, stamp[1].anchor) :
           /\ verified' = verify_stamp(verdict)
           /\ IF verify_stamp(verdict) = "Ok"
              THEN pc' = "sign" /\ result' = result
              ELSE pc' = "done" /\ result' = verify_stamp(verdict)
    /\ UNCHANGED << stamp_vec, flow_vars, value_vars, agg_vars, sk, local, plan, auth, anchor, actions_witnesses, bsk, stamp,
                    built, bundle, stripped >>

\* Stamped::build, the binding signature over the recomputed sighash and the
\* returned bundle.
BuildSign ==
    /\ pc = "sign"
    /\ LET pairs == [i \in 1 .. Len(BuildActions) |->
                        << BuildActions[i].cv, BuildActions[i].rk >>]
           sh    == sighash(pairs, plan[1].value_balance)
           b     == [actions       |-> BuildActions,
                     value_balance |-> plan[1].value_balance,
                     binding_sig   |-> BindingSigningKeySign(bsk, sh),
                     stamp         |-> stamp[1]]
       IN  built' = Some(b) /\ bundle' = Some(b)
    /\ result' = "Ok"
    /\ pc' = "done"
    /\ UNCHANGED << stamp_vec, flow_vars, value_vars, agg_vars, verified, sk, local, plan, auth, anchor, actions_witnesses, bsk, stamp,
                    stripped >>

\* ------------------------------------------------- the holder of a bundle
\* The fields of Bundle are public: whoever holds a built bundle can assign
\* them.  One assignment is made, to a correctly built bundle, before it is
\* stripped.
Held ==
    /\ pc = "done"
    /\ result = "Ok"
    /\ bundle = built
    /\ stripped = None
    /\ verify_signatures(built[1]) = "Ok"

\* A signature nobody's key made.
GarbageSig == [key |-> 0, msg |-> [personal |-> "garbage", input |-> << >>]]

\* bundle.value_balance = v
SetValueBalance ==
    /\ Held
    /\ \E d \in {-1, 1} :
           bundle' = Some([bundle[1] EXCEPT !.value_balance = @ + d])
    /\ UNCHANGED << stamp_vec, flow_vars, value_vars, agg_vars, verified, sk, local, pc, plan, auth, anchor, actions_witnesses, bsk,
                    stamp, result, built, stripped >>

\* bundle.actions[i].sig = s, with s another action's signature or garbage.
SetActionSig ==
    /\ Held
    /\ \E i \in 1 .. Len(bundle[1].actions) :
       \E s \in {bundle[1].actions[j].sig : j \in 1 .. Len(bundle[1].actions)}
                \cup {GarbageSig} :
           /\ s # bundle[1].actions[i].sig
           /\ bundle' = Some([bundle[1] EXCEPT !.actions[i].sig = s])
    /\ UNCHANGED << stamp_vec, flow_vars, value_vars, agg_vars, verified, sk, local, pc, plan, auth, anchor, actions_witnesses, bsk,
                    stamp, result, built, stripped >>

\* The signature of an action made on the other path: a spend's alpha signed
\* as an output (rsk = alpha), an output's alpha signed as a spend
\* (rsk = ask + alpha).
OtherPathSig(planned, ask, sh) ==
    IF planned.effect = "Spend"
    THEN OutputRandomizerSign(WitnessAlpha(planned), sh)
    ELSE SpendRandomizerSign(WitnessAlpha(planned), ask, sh)

\* bundle.actions[i].sig = the signature made on the other path.
SignOtherPath ==
    /\ Held
    /\ \E i \in 1 .. Len(bundle[1].actions) :
           bundle' = Some([bundle[1] EXCEPT !.actions[i].sig =
                              OtherPathSig(plan[1].actions[i], local, BundleSighash(bundle[1]))])
    /\ UNCHANGED << stamp_vec, flow_vars, value_vars, agg_vars, verified, sk, local, pc, plan, auth,
                    anchor, actions_witnesses, bsk, stamp, result, built, stripped >>

\* bundle.binding_sig = s
SetBindingSig ==
    /\ Held
    /\ bundle' = Some([bundle[1] EXCEPT !.binding_sig = GarbageSig])
    /\ UNCHANGED << stamp_vec, flow_vars, value_vars, agg_vars, verified, sk, local, pc, plan, auth, anchor, actions_witnesses, bsk,
                    stamp, result, built, stripped >>

\* bundle.actions.swap(0, 1)
SwapActions ==
    /\ Held
    /\ Len(bundle[1].actions) >= 2
    /\ bundle' = Some([bundle[1] EXCEPT !.actions[1] = bundle[1].actions[2],
                                        !.actions[2] = bundle[1].actions[1]])
    /\ UNCHANGED << stamp_vec, flow_vars, value_vars, agg_vars, verified, sk, local, pc, plan, auth, anchor, actions_witnesses, bsk,
                    stamp, result, built, stripped >>

\* bundle.stamp = another stamp
SetStamp ==
    /\ Held
    /\ bundle' = Some([bundle[1] EXCEPT !.stamp =
                          [tachygrams |-> << >>, anchor |-> @.anchor + 1,
                           proof |-> "OtherProof"]])
    /\ UNCHANGED << stamp_vec, flow_vars, value_vars, agg_vars, verified, sk, local, pc, plan, auth, anchor, actions_witnesses, bsk,
                    stamp, result, built, stripped >>

\* bundle.strip()
Strip ==
    /\ pc = "done"
    /\ result = "Ok"
    /\ stripped' = Some(strip(bundle[1]))
    /\ pc' = "stripped"
    /\ UNCHANGED << stamp_vec, flow_vars, value_vars, agg_vars, verified, sk, local, plan, auth, anchor, actions_witnesses, bsk, stamp,
                    result, built, bundle >>

\* ------------------------------------------------------------ aggregation
\* ActionLeaf: the generator of both accumulators (a placeholder in the
\* source: the identity).
GenAcc == Identity

\* The Poseidon sponge over one tachygram, extracted to a scalar.
TgScalar(tg) == (tg + 1) % Q

\* tachygram_acc of a stamp: the sum of the leaves' tg_point.
RECURSIVE TachygramAcc(_)
TachygramAcc(tgs) ==
    IF tgs = << >> THEN Identity
    ELSE PointAdd(ScalarMul(TgScalar(Head(tgs)), GenAcc), TachygramAcc(Tail(tgs)))

\* The StampDigest a stamp's proof carries: the accumulators of its leaves
\* (d_hash is the zero element in the source) and the stamp's anchor.
HeaderOf(st) ==
    [actions_acc   |-> ScalarMul(0, GenAcc),
     tachygram_acc |-> TachygramAcc(st.tachygrams),
     anchor        |-> st.anchor]

\* StampMerge::witness: the quotient is allocated and not constrained, the
\* accumulators are added, the output anchor is the left header's anchor.
StampMergeStep(witness, left, right) ==
    [actions_acc   |-> PointAdd(left.actions_acc, right.actions_acc),
     tachygram_acc |-> PointAdd(left.tachygram_acc, right.tachygram_acc),
     anchor        |-> left.anchor]

\* MergePrivate.anchor_quotient
AnchorQuotients == {1, 2}

\* A bundle built by another wallet: one output of value 2, stamped with the
\* given tachygrams and anchor.
ForeignBundle(tgs, anc) ==
    LET note  == [value |-> 2]
        alpha == output_randomizer(1, NoteCommitment(note))
        cv    == commit_output(1, note)
        rk    == derive_rk(alpha)
        sh    == sighash(<< << cv, rk >> >>, -2)
    IN  [actions       |-> << [cv |-> cv, rk |-> rk, sig |-> OutputRandomizerSign(alpha, sh)] >>,
         value_balance |-> -2,
         binding_sig   |-> BindingSigningKeySign(1, sh),
         stamp         |-> [tachygrams |-> tgs, anchor |-> anc, proof |-> "Proof"]]

\* The aggregator's own bundles and the adjuncts other wallets send it.
AggregateSeeds == {ForeignBundle(<< 1 >>, 0), ForeignBundle(<< 1 >>, 1)}
ForeignAdjuncts == {ForeignBundle(<< 3, 2 >>, 1)}

\* The aggregator takes up its own stamped bundle.
StartAggregate ==
    /\ pc = "stripped"
    /\ bundle = built
    /\ \E seed \in AggregateSeeds :
           /\ aggregate' = Some(seed)
           /\ agg_before' = Some(seed)
           /\ header' = Some(HeaderOf(seed.stamp))
    /\ pc' = "aggregate"
    /\ UNCHANGED << stamp_vec, flow_vars, value_vars, verified, sk, local, plan, auth, anchor, actions_witnesses,
                    bsk, stamp, result, built, bundle, stripped, adjuncts, merge_log >>

\* One aggregation step: the adjunct's stamp, taken by strip, is merged into
\* the aggregate's stamp (Stamp::merge on the stamps, the StampMerge step on
\* the proofs' headers); the stripped adjunct joins the block.
AggregateStep(original, sp, quotient) ==
    LET left   == aggregate[1].stamp
        right  == sp[2]
        merged == StampMerge(left, right)
        out    == StampMergeStep([anchor_quotient |-> quotient], header[1], HeaderOf(right))
    IN  /\ aggregate' = Some([aggregate[1] EXCEPT !.stamp = merged])
        /\ adjuncts' = Append(adjuncts, sp[1])
        /\ header' = Some(out)
        /\ merge_log' = Append(merge_log,
               [adjunct |-> original, left |-> left, right |-> right, merged |-> merged,
                left_header |-> header[1], right_header |-> HeaderOf(right),
                out_header |-> out])

\* The wallet's stripped bundle is merged into the aggregate.
MergeAdjunct ==
    /\ pc = "aggregate"
    /\ \A i \in 1 .. Len(merge_log) : merge_log[i].adjunct # bundle[1]
    /\ \E quotient \in AnchorQuotients : AggregateStep(bundle[1], stripped[1], quotient)
    /\ UNCHANGED << stamp_vec, flow_vars, value_vars, verified, sk, local, pc, plan, auth, anchor, actions_witnesses,
                    bsk, stamp, result, built, bundle, stripped, agg_before >>

\* Another wallet's bundle is stripped and merged into the aggregate.
MergeForeign ==
    /\ pc = "aggregate"
    /\ \E f \in ForeignAdjuncts :
           /\ \A i \in 1 .. Len(merge_log) : merge_log[i].adjunct # f
           /\ \E quotient \in AnchorQuotients : AggregateStep(f, strip(f), quotient)
    /\ UNCHANGED << stamp_vec, flow_vars, value_vars, verified, sk, local, pc, plan, auth, anchor, actions_witnesses,
                    bsk, stamp, result, built, bundle, stripped, agg_before >>

Next ==
    \/ NewPlan
    \/ Authorize
    \/ PlanBuild
    \/ BuildBindingKey
    \/ BuildStamp
    \/ BuildVerifyStamp
    \/ BuildSign
    \/ SetValueBalance
    \/ SetActionSig
    \/ SignOtherPath
    \/ SetBindingSig
    \/ SwapActions
    \/ SetStamp
    \/ Strip
    \/ StartAggregate
    \/ MergeAdjunct
    \/ MergeForeign

Spec == Init /\ [][Next]_vars

\* ------------------------------------------------------------------ claims
\* The plan is an honest one: the declared balance is the sum of the signed
\* values, custody holds the ask of the wallet's spending key, and every
\* spend's rk comes from the ak of that key.
Honest ==
    /\ plan # None
    /\ plan[1].value_balance = SumSigned(plan[1].actions)
    /\ local = derive_auth_private(sk)
    /\ \A i \in 1 .. Len(plan[1].actions) :
           plan[1].actions[i].effect = "Spend" =>
               plan[1].actions[i].rk =
                   derive_action_public(derive_proof_private(sk),
                       spend_randomizer(plan[1].actions[i].theta,
                                        NoteCommitment(plan[1].actions[i].note)))

\* Plan::build has just returned a bundle.
JustBuilt == pc = "done" /\ result = "Ok" /\ bundle = built

\* C1: the bundle Plan::build returns for an honest plan authorized by a
\* Local custody of the same spending key passes verify_signatures.
C1_BuildVerifyRoundTrip ==
    (Honest /\ JustBuilt) => verify_signatures(built[1]) = "Ok"

C1_Witness ==
    /\ Honest
    /\ JustBuilt
    /\ Len(built[1].actions) = 2
    /\ plan[1].actions[1].effect = "Spend"
    /\ plan[1].actions[2].effect = "Output"
    /\ verify_signatures(built[1]) = "Ok"

\* The value commitments of the actions of a bundle.
Cvs(b) == [i \in 1 .. Len(b.actions) |-> b.actions[i].cv]

\* C2: with honest commitments and bsk the sum of the trapdoors, a binding
\* signature made with bsk verifies under the recomputed bvk exactly when
\* the signed values sum to the value balance; assigning another value
\* balance to a built bundle makes verify_signatures fail.
C2_BindingIffBalanced ==
    (built # None /\ pc = "done") =>
        /\ BvkVerify(BvkDerive(built[1].actions, built[1].value_balance),
                     BundleSighash(built[1]), built[1].binding_sig)
              <=> SumSigned(plan[1].actions) = built[1].value_balance
        /\ Cvs(bundle[1]) = Cvs(built[1]) =>
              LET sh == BundleSighash(bundle[1])
              IN  BvkVerify(BvkDerive(bundle[1].actions, bundle[1].value_balance),
                            sh, BindingSigningKeySign(bsk, sh))
                    <=> SumSigned(plan[1].actions) = bundle[1].value_balance
        /\ bundle[1].value_balance # built[1].value_balance =>
              verify_signatures(bundle[1]) # "Ok"

C2_Witness ==
    /\ Honest
    /\ built # None
    /\ Len(built[1].actions) = 2
    /\ verify_signatures(built[1]) = "Ok"
    /\ bundle[1].value_balance # built[1].value_balance
    /\ verify_signatures(bundle[1]) = "InvalidSignature"

\* C3: inside Stamped::build, when the signed values sum to the value
\* balance, [bsk]R equals the bvk derived from the actions and the balance,
\* and the fault check does not fire.
C3_BskMatchesBvk ==
    (/\ pc = "stamp" \/ result = "PanicBskBvkMismatch"
     /\ SumSigned(plan[1].actions) = plan[1].value_balance)
    => /\ derive_binding_public(bsk)
            = BvkDerive(BuildActions, plan[1].value_balance)
       /\ result # "PanicBskBvkMismatch"

C3_Witness ==
    /\ pc = "stamp"
    /\ SumSigned(plan[1].actions) = plan[1].value_balance
    /\ Len(actions_witnesses) = 2
    /\ plan[1].actions[1].effect = "Spend"
    /\ plan[1].actions[2].effect = "Output"
    /\ bsk # 0
    /\ derive_binding_public(bsk) = BvkDerive(BuildActions, plan[1].value_balance)

\* The (cv, rk) pairs of a bundle, in order.
EffectingData(b) == [i \in 1 .. Len(b.actions) |-> << b.actions[i].cv, b.actions[i].rk >>]

\* Lists that differ from e by a reordering, a removed pair, an added pair or
\* a pair with its two halves exchanged, and e itself.
SighashVariants(e) ==
    LET n == Len(e)
    IN  {e}
        \cup {[i \in 1 .. n |-> e[f[i]]] :
                 f \in {g \in [1 .. n -> 1 .. n] : \A a, b \in 1 .. n : a # b => g[a] # g[b]}}
        \cup {SubSeq(e, 1, i - 1) \o SubSeq(e, i + 1, n) : i \in 1 .. n}
        \cup {e \o << e[i] >> : i \in 1 .. n}
        \cup {<< e[i] >> \o e : i \in 1 .. n}
        \cup {[e EXCEPT ![i] = << e[i][2], e[i][1] >>] : i \in 1 .. n}

\* C4: the sighash is a function of exactly the ordered (cv, rk) list and the
\* value balance: two inputs give the same digest exactly when the lists are
\* equal (length and order) and the balances are equal; signatures, binding
\* signature and stamp do not enter it.
C4_SighashInputs ==
    (built # None /\ pc = "done") =>
        /\ BundleSighash(bundle[1]) = BundleSighash(built[1])
              <=> /\ EffectingData(bundle[1]) = EffectingData(built[1])
                  /\ bundle[1].value_balance = built[1].value_balance
        /\ Held =>
              \A e \in SighashVariants(EffectingData(built[1])) :
              \A vb \in {built[1].value_balance + d : d \in {-1, 0, 1}} :
                  sighash(e, vb) = BundleSighash(built[1])
                    <=> (e = EffectingData(built[1]) /\ vb = built[1].value_balance)

C4_Witness ==
    /\ built # None
    /\ Len(built[1].actions) = 2
    /\ bundle[1].value_balance = built[1].value_balance
    /\ EffectingData(bundle[1]) = << EffectingData(built[1])[2], EffectingData(built[1])[1] >>
    /\ EffectingData(bundle[1]) # EffectingData(built[1])
    /\ BundleSighash(bundle[1]) # BundleSighash(built[1])

C7_RkConsistency ==
    /\ pc = "plan" =>
          \A ask \in Fq : \A alpha \in Fq :
              /\ rsk_derive_action_public(derive_action_private(ask, alpha))
                   = derive_action_public(derive_auth_public(ask), alpha)
              /\ derive_rk(alpha) = ScalarMul(alpha, SpendAuthG)
              /\ RkVerify(derive_action_public(derive_auth_public(ask), alpha),
                          sighash(<< >>, 0),
                          SpendRandomizerSign(alpha, ask, sighash(<< >>, 0)))
    /\ (pc = "build" /\ local = derive_auth_private(sk)) =>
          \A i \in 1 .. Len(auth[1].sigs) :
              RkVerify(plan[1].actions[i].rk,
                       PlanSighash(plan[1], auth[1].commitments), auth[1].sigs[i])

C7_Witness ==
    /\ pc = "build"
    /\ local = derive_auth_private(sk)
    /\ Len(plan[1].actions) = 2
    /\ plan[1].actions[1].effect = "Spend"
    /\ plan[1].actions[2].effect = "Output"
    /\ auth[1].sigs[1].key = plan[1].actions[1].rk
    /\ auth[1].sigs[2].key = plan[1].actions[2].rk

\* C8: Stamped::strip returns a stripped bundle with the same actions, value
\* balance and binding signature, and exactly the stamp the bundle held; only
\* the stamp slot changes.
C8_StripPreserves ==
    stripped # None =>
        /\ stripped[1][1].actions = bundle[1].actions
        /\ stripped[1][1].value_balance = bundle[1].value_balance
        /\ stripped[1][1].binding_sig = bundle[1].binding_sig
        /\ stripped[1][1].stamp = Stampless
        /\ stripped[1][2] = bundle[1].stamp

C8_Witness ==
    /\ stripped # None
    /\ Len(bundle[1].actions) = 2
    /\ bundle[1].value_balance # 0
    /\ stripped[1][1].actions = built[1].actions
    /\ stripped[1][2] = built[1].stamp
    /\ Len(stripped[1][2].tachygrams) = 2

\* C9: the result of verify_signatures does not depend on the stamp: a bundle
\* and its stripped form give the same result, valid or not, and so do two
\* bundles that differ only in the stamp.
C9_VerifyIgnoresStamp ==
    /\ stripped # None =>
          verify_signatures(stripped[1][1]) = verify_signatures(bundle[1])
    /\ (bundle # None /\ pc = "done") =>
          \A st \in {Stampless, built[1].stamp,
                      [tachygrams |-> << >>, anchor |-> 0, proof |-> "OtherProof"]} :
              verify_signatures([bundle[1] EXCEPT !.stamp = st])
                = verify_signatures(bundle[1])

C9_Witness ==
    /\ stripped # None
    /\ bundle # built
    /\ verify_signatures(built[1]) = "Ok"
    /\ verify_signatures(bundle[1]) = "InvalidSignature"
    /\ verify_signatures(stripped[1][1]) = "InvalidSignature"

\* C10: verify_signatures answers Ok exactly when the binding signature
\* verifies under the recomputed bvk over the recomputed sighash and every
\* action signature verifies under its rk over that sighash; one invalid
\* action signature at any position, or an invalid binding signature, is an
\* error.
C10_VerifyIffAllValid ==
    (bundle # None /\ pc = "done") =>
        LET b   == bundle[1]
            sh  == BundleSighash(b)
            bvk == BvkDerive(b.actions, b.value_balance)
        IN  verify_signatures(b) = "Ok"
              <=> /\ BvkVerify(bvk, sh, b.binding_sig)
                  /\ \A i \in 1 .. Len(b.actions) :
                        RkVerify(b.actions[i].rk, sh, b.actions[i].sig)

C10_Witness ==
    /\ bundle # None
    /\ verify_signatures(built[1]) = "Ok"
    /\ Len(bundle[1].actions) = 2
    /\ bundle[1].actions[1] = built[1].actions[1]
    /\ bundle[1].actions[2].sig # built[1].actions[2].sig
    /\ bundle[1].binding_sig = built[1].binding_sig
    /\ verify_signatures(bundle[1]) = "InvalidSignature"


\* ---------------------------------------------------------------------------
\* C11: value commitments are additively homomorphic.  For signed values a, b
\* and trapdoors rcv_a, rcv_b:
\*   commit(a, rcv_a) + commit(b, rcv_b) - balance(a + b) = [rcv_a + rcv_b]R.
\* Checked for every pair of trapdoors of Fq and every pair of signed values
\* of SignedSamples before a plan is made, and on every pair of actions of a
\* committed plan with the trapdoors custody drew for it.
SignedSamples == -3 .. 3

HomomorphicBinding(a, rcv_a, b, rcv_b) ==
    PointSub(PointAdd(commit(rcv_a, a), commit(rcv_b, b)), balance(a + b))
        = ScalarMul(FqAdd(rcv_a, rcv_b), VALUE_COMMIT_R)

C11_CommitHomomorphism ==
    /\ pc = "plan" =>
          \A a, b \in SignedSamples : \A rcv_a, rcv_b \in Fq :
              HomomorphicBinding(a, rcv_a, b, rcv_b)
    /\ pc = "build" =>
          LET acts == plan[1].actions
              cms  == auth[1].commitments
          IN  \A i, j \in 1 .. Len(acts) :
                 i < j =>
                   /\ cms[i][1] = commit(cms[i][2], SignedValue(acts[i]))
                   /\ cms[j][1] = commit(cms[j][2], SignedValue(acts[j]))
                   /\ PointSub(PointAdd(cms[i][1], cms[j][1]),
                               balance(SignedValue(acts[i]) + SignedValue(acts[j])))
                        = ScalarMul(FqAdd(cms[i][2], cms[j][2]), VALUE_COMMIT_R)

\* A committed plan with a spend and an output of different values and
\* non-zero trapdoors that do not cancel.
C11_Witness ==
    /\ pc = "build"
    /\ Len(plan[1].actions) = 2
    /\ plan[1].actions[1].effect = "Spend"
    /\ plan[1].actions[2].effect = "Output"
    /\ SignedValue(plan[1].actions[1]) + SignedValue(plan[1].actions[2]) # 0
    /\ auth[1].commitments[1][2] # 0
    /\ FqAdd(auth[1].commitments[1][2], auth[1].commitments[2][2]) # 0
    /\ PointSub(PointAdd(auth[1].commitments[1][1], auth[1].commitments[2][1]),
                balance(SignedValue(plan[1].actions[1]) + SignedValue(plan[1].actions[2])))
         = ScalarMul(FqAdd(auth[1].commitments[1][2], auth[1].commitments[2][2]),
                     VALUE_COMMIT_R)

\* ---------------------------------------------------------------------------
\* C12: the authorization data a custody device returns for a plan holds
\* exactly one signature and one (cv, rcv) pair per action, spends and
\* outputs alike, in plan order.  Stated on what Local::authorize returns for
\* the committed plan: as many signatures as the plan has actions, the i-th
\* one verifying under the i-th action's rk.
CustodySigs ==
    LocalAuthorize(local,
                   [i \in 1 .. Len(plan[1].actions) |->
                       << auth[1].commitments[i][1], plan[1].actions[i].rk >>],
                   plan[1].value_balance,
                   SpendRequests(plan[1].actions, 1))

C12_OneEntryPerAction ==
    pc = "build" =>
        /\ Len(auth[1].commitments) = Len(plan[1].actions)
        /\ Len(CustodySigs) = Len(plan[1].actions)
        /\ local = derive_auth_private(sk) =>
               \A i \in 1 .. Len(plan[1].actions) :
                   RkVerify(plan[1].actions[i].rk,
                            PlanSighash(plan[1], auth[1].commitments), CustodySigs[i])

\* ---------------------------------------------------------------------------
\* C13: Stamped::build returns Err(BuildError::BalanceKey), before any proof
\* is made and without a binding signature, whenever the sum of the
\* witnesses' trapdoors is the zero scalar.  Stated on every state past the
\* binding-key step of a build whose trapdoors sum to zero: the build has
\* ended with BalanceKey, no stamp and no bundle.
C13_ZeroBskRejected ==
    ( /\ pc \in {"stamp", "verify_stamp", "sign", "done"}
      /\ actions_witnesses # << >>
      /\ RcvSum(BuildWitnesses) = 0 )
    => ( /\ pc = "done"
         /\ result = "BalanceKey"
         /\ stamp = None
         /\ built = None )

\* ---------------------------------------------------------------------------
\* Construction of note values: a u64 is drawn, Value::from is applied to it.
ValueInit ==
    /\ sk = 0
    /\ local = derive_auth_private(sk)
    /\ pc = "plan"
    /\ plan = None
    /\ auth = None
    /\ anchor = 0
    /\ actions_witnesses = << >>
    /\ bsk = 0
    /\ stamp = None
    /\ verified = "Pending"
    /\ result = "Pending"
    /\ built = None
    /\ bundle = None
    /\ stripped = None
    /\ amount \in U64Samples
    /\ note_value = None
    /\ value_i64 = None
    /\ negated = None
    /\ aggregate = None
    /\ agg_before = None
    /\ adjuncts = << >>
    /\ header = None
    /\ merge_log = << >>
    /\ rng = << >>
    /\ composable = None
    /\ plan_built = None
    /\ stamp_vec = << >>

\* From<u64> for Value: the assertion panics above the bound, otherwise the
\* number is wrapped.
ValueFromU64 ==
    /\ result = "Pending"
    /\ IF ValueAssert(amount)
       THEN /\ note_value' = Some(amount)
            /\ result' = "Ok"
       ELSE /\ note_value' = None
            /\ result' = "PanicNoteValueExceedsMaximum"
    /\ UNCHANGED << stamp_vec, flow_vars, agg_vars, amount, value_i64, negated, sk, local, pc, plan, auth,
                    anchor, actions_witnesses, bsk, stamp, verified, built, bundle, stripped >>

\* Into<i64> for Value: i64::try_from(self.0).expect("value fits in i64").
ValueIntoI64Checked ==
    /\ note_value # None
    /\ value_i64 = None
    /\ result = "Ok"
    /\ IF I64TryFromU64(note_value[1]) # << >>
       THEN /\ value_i64' = I64TryFromU64(note_value[1])
            /\ result' = result
       ELSE /\ value_i64' = None
            /\ result' = "PanicValueFitsInI64"
    /\ UNCHANGED << stamp_vec, flow_vars, agg_vars, amount, note_value, negated, sk, local, pc, plan,
                    auth, anchor, actions_witnesses, bsk, stamp, verified, built, bundle, stripped >>

\* value.neg() of UnsignedAction::output: an overflow panics in a build with
\* overflow checks and wraps in one without.
ValueNeg ==
    /\ value_i64 # None
    /\ negated = None
    /\ result = "Ok"
    /\ IF value_i64[1] = I64MIN
       THEN \E overflow_checks \in BOOLEAN :
                IF overflow_checks
                THEN negated' = None /\ result' = "PanicNegOverflow"
                ELSE negated' = Some(I64WrappingNeg(value_i64[1])) /\ result' = result
       ELSE negated' = Some(I64WrappingNeg(value_i64[1])) /\ result' = result
    /\ UNCHANGED << stamp_vec, flow_vars, agg_vars, amount, note_value, value_i64, sk, local, pc, plan,
                    auth, anchor, actions_witnesses, bsk, stamp, verified, built, bundle, stripped >>

ValueNext == ValueFromU64 \/ ValueIntoI64Checked \/ ValueNeg

ValueSpec == ValueInit /\ [][ValueNext]_vars

ConcatOf(merged, left, right) ==
    /\ Len(merged) = Len(left) + Len(right)
    /\ \A i \in 1 .. Len(left) : merged[i] = left[i]
    /\ \A j \in 1 .. Len(right) : merged[Len(left) + j] = right[j]

C15_MergeConcatenates ==
    /\ \A i \in 1 .. Len(merge_log) :
           ConcatOf(merge_log[i].merged.tachygrams,
                    merge_log[i].left.tachygrams, merge_log[i].right.tachygrams)
    /\ (aggregate # None /\ merge_log # << >>) =>
           aggregate[1].stamp.tachygrams = merge_log[Len(merge_log)].merged.tachygrams
    /\ (pc = "verify_stamp" /\ Len(actions_witnesses) = 2) =>
           ConcatOf(stamp[1].tachygrams,
                    prove_action(BuildWitnesses[1], BuildActions[1], anchor).tachygrams,
                    prove_action(BuildWitnesses[2], BuildActions[2], anchor).tachygrams)

\* Two merges have been made; the second one put two different tachygrams
\* behind a list that already held a repeated one.
C15_Witness ==
    /\ Len(merge_log) = 2
    /\ merge_log[2].left.tachygrams = << 1, 0, 0 >>
    /\ merge_log[2].right.tachygrams = << 3, 2 >>
    /\ aggregate[1].stamp.tachygrams = << 1, 0, 0, 3, 2 >>

\* ---------------------------------------------------------------------------
\* C16: for any two stamps being merged the merged anchor is the later
\* (larger) of the two input anchors, whichever side carries it, both in the
\* anchor field Stamp::merge sets and in the header the StampMerge step
\* gives the merged proof, so that the two agree.
C16_MergedAnchorIsLater ==
    \A i \in 1 .. Len(merge_log) :
        LET e == merge_log[i]
        IN  /\ e.merged.anchor = Max(e.left.anchor, e.right.anchor)
            /\ e.out_header.anchor = Max(e.left_header.anchor, e.right_header.anchor)
            /\ e.out_header.anchor = e.merged.anchor

\* ---------------------------------------------------------------------------
\* C17: after any sequence of aggregation steps every bundle involved, the
\* aggregate and each stripped adjunct, holds its own actions, value_balance
\* and binding signature unchanged and gives the same verify_signatures
\* result as before aggregation; only stamps have moved, and the aggregate's
\* stamp lists every tachygram of every merged stamp.
RECURSIVE MergedTachygrams(_)
MergedTachygrams(log) ==
    IF log = << >> THEN << >>
    ELSE MergedTachygrams(SubSeq(log, 1, Len(log) - 1))
            \o log[Len(log)].adjunct.stamp.tachygrams

SameSignedData(a, b) ==
    /\ a.actions = b.actions
    /\ a.value_balance = b.value_balance
    /\ a.binding_sig = b.binding_sig
    /\ verify_signatures(a) = verify_signatures(b)

C17_AggregationKeepsBundles ==
    aggregate # None =>
        /\ SameSignedData(aggregate[1], agg_before[1])
        /\ Len(adjuncts) = Len(merge_log)
        /\ \A i \in 1 .. Len(adjuncts) :
               /\ SameSignedData(adjuncts[i], merge_log[i].adjunct)
               /\ adjuncts[i].stamp = Stampless
        /\ aggregate[1].stamp.tachygrams
             = agg_before[1].stamp.tachygrams \o MergedTachygrams(merge_log)
        /\ (\E i \in 1 .. Len(merge_log) : merge_log[i].adjunct = bundle[1]) =>
               /\ bundle = built
               /\ stripped[1][1] \in {adjuncts[i] : i \in 1 .. Len(adjuncts)}

\* The wallet's bundle of two actions and another wallet's bundle have both
\* been stripped and merged, the foreign one first; the wallet's bundle does
\* not pass verify_signatures, before or after.
C17_Witness ==
    /\ Len(merge_log) = 2
    /\ merge_log[2].adjunct = bundle[1]
    /\ Len(bundle[1].actions) = 2
    /\ verify_signatures(bundle[1]) # "Ok"
    /\ verify_signatures(adjuncts[2]) = verify_signatures(bundle[1])
    /\ verify_signatures(aggregate[1]) = "Ok"
    /\ aggregate[1].stamp.tachygrams = << 1, 3, 2, 0, 0 >>

\* ---------------------------------------------------------------------------
\* The two construction flows of the tests of bundle.rs, run on one rng
\* stream.  The stream is read in 32-byte chunks: ActionEntropy::random takes
\* one chunk, CommitmentTrapdoor::random (Fq::random, 64 bytes reduced into
\* Fq) takes two, a signature takes one chunk here for its randomness.
Chunks == {0, 1}
Streams == [1 .. 9 -> Chunks]

\* ActionEntropy::random
ThetaRandom(stream, at) == stream[at]

\* value::CommitmentTrapdoor::random
RcvRandom(stream, at) == (stream[at] + 2 * stream[at + 1]) % Q

\* The notes and the balance of both tests (1000 in, 700 out, 300 left),
\* scaled.
FlowSpendNote == [value |-> 2]
FlowOutputNote == [value |-> 1]
FlowValueBalance == ValueIntoI64(FlowSpendNote.value) - ValueIntoI64(FlowOutputNote.value)

\* Stamped::build for inputs it accepts: actions, bsk, merged stamp, binding
\* signature over the sighash of the actions.
StampedBuild(aw, value_balance, anc) ==
    LET acts   == [i \in 1 .. Len(aw) |-> aw[i][1]]
        wits   == [i \in 1 .. Len(aw) |-> aw[i][2]]
        stamps == MergeStamps([i \in 1 .. Len(aw) |-> prove_action(wits[i], acts[i], anc)])
        sh     == sighash([i \in 1 .. Len(aw) |-> << acts[i].cv, acts[i].rk >>],
                          value_balance)
    IN  [actions       |-> acts,
         value_balance |-> value_balance,
         binding_sig   |-> BindingSigningKeySign(RcvSum(wits), sh),
         stamp         |-> stamps[1]]

\* tests::build_test_bundle: both thetas are drawn first, then custody
\* commits (one trapdoor per action) and signs, then Plan::build signs.
PlanFlowBundle(key, stream) ==
    LET theta_spend  == ThetaRandom(stream, 1)
        theta_output == ThetaRandom(stream, 2)
        spend  == ActionPlanSpend(FlowSpendNote, theta_spend, derive_proof_private(key))
        output == ActionPlanOutput(FlowOutputNote, theta_output)
        pl     == PlanNew(<< spend, output >>, FlowValueBalance)
        au     == AuthorizePlan(derive_auth_private(key), pl,
                                << RcvRandom(stream, 3), RcvRandom(stream, 5) >>)
    IN  [bundle |-> StampedBuild(PairActions(pl, au), pl.value_balance, 0),
         sig_randomness |-> << stream[7], stream[8], stream[9] >>]

\* tests::composable_delegation_flow: per action the trapdoor is drawn, then
\* theta; the sighash is computed, both actions are signed, bsk is summed,
\* the stamps are proved and merged, the binding signature is made.
ComposableFlowBundle(key, stream) ==
    LET ask          == derive_auth_private(key)
        ak           == derive_proof_private(key)
        spend_rcv    == RcvRandom(stream, 1)
        spend_cv     == commit_spend(spend_rcv, FlowSpendNote)
        spend_theta  == ThetaRandom(stream, 3)
        spend_alpha  == spend_randomizer(spend_theta, NoteCommitment(FlowSpendNote))
        spend_rk     == derive_action_public(ak, spend_alpha)
        output_rcv   == RcvRandom(stream, 4)
        output_cv    == commit_output(output_rcv, FlowOutputNote)
        output_theta == ThetaRandom(stream, 6)
        output_alpha == output_randomizer(output_theta, NoteCommitment(FlowOutputNote))
        output_rsk   == from_output_alpha(output_alpha)
        output_rk    == rsk_derive_action_public(output_rsk)
        sh           == sighash(<< << spend_cv, spend_rk >>, << output_cv, output_rk >> >>,
                                FlowValueBalance)
        spend_action  == [cv |-> spend_cv, rk |-> spend_rk,
                          sig |-> SpendRandomizerSign(spend_alpha, ask, sh)]
        output_action == [cv |-> output_cv, rk |-> output_rk,
                          sig |-> ActionSigningKeySign(output_rsk, sh)]
        spend_witness  == [rcv |-> spend_rcv, note |-> FlowSpendNote, alpha |-> spend_alpha]
        output_witness == [rcv |-> output_rcv, note |-> FlowOutputNote, alpha |-> output_alpha]
        bsk_sum      == FqAdd(FqAdd(0, spend_witness.rcv), output_witness.rcv)
        merged       == StampMerge(prove_action(spend_witness, spend_action, 0),
                                   prove_action(output_witness, output_action, 0))
    IN  [bundle |-> [actions       |-> << spend_action, output_action >>,
                     value_balance |-> FlowValueBalance,
                     binding_sig   |-> BindingSigningKeySign(bsk_sum, sh),
                     stamp         |-> merged],
         sig_randomness |-> << stream[7], stream[8], stream[9] >>]

FlowInit ==
    /\ sk \in SpendingKeys
    /\ local = derive_auth_private(sk)
    /\ pc = "plan"
    /\ plan = None
    /\ auth = None
    /\ anchor = 0
    /\ actions_witnesses = << >>
    /\ bsk = 0
    /\ stamp = None
    /\ verified = "Pending"
    /\ result = "Pending"
    /\ built = None
    /\ bundle = None
    /\ stripped = None
    /\ amount = << 0, 0, 0, 1 >>
    /\ note_value = Some(amount)
    /\ value_i64 = None
    /\ negated = None
    /\ aggregate = None
    /\ agg_before = None
    /\ adjuncts = << >>
    /\ header = None
    /\ merge_log = << >>
    /\ rng \in Streams
    /\ composable = None
    /\ plan_built = None
    /\ stamp_vec = << >>

ComposableFlow ==
    /\ composable = None
    /\ composable' = Some(ComposableFlowBundle(sk, rng))
    /\ UNCHANGED << stamp_vec, value_vars, agg_vars, sk, local, pc, plan, auth, anchor,
                    actions_witnesses, bsk, stamp, verified, result, built, bundle,
                    stripped, rng, plan_built >>

PlanFlow ==
    /\ plan_built = None
    /\ stamp_vec = << >>
    /\ plan_built' = Some(PlanFlowBundle(sk, rng))
    /\ UNCHANGED << stamp_vec, value_vars, agg_vars, sk, local, pc, plan, auth, anchor,
                    actions_witnesses, bsk, stamp, verified, result, built, bundle,
                    stripped, rng, composable >>

FlowNext == ComposableFlow \/ PlanFlow

FlowSpec == FlowInit /\ [][FlowNext]_vars

\* C18: for the same fixed rng and the same inputs the step-by-step flow
\* gives a bundle byte-identical to the one of Plan::new, Custody::authorize
\* and Plan::build.
C18_FlowsByteIdentical ==
    (composable # None /\ plan_built # None) => composable = plan_built

\* The two flows compute the same bundle from the same thetas and trapdoors:
\* the plan flow on the stream whose chunks are put in the order the
\* step-by-step flow reads them gives the step-by-step flow's bundle, and
\* both bundles pass verify_signatures.
FlowsAgreeOnSameDraws ==
    (composable # None /\ plan_built # None) =>
        /\ composable[1]
             = PlanFlowBundle(sk, << rng[3], rng[6], rng[1], rng[2], rng[4], rng[5],
                                     rng[7], rng[8], rng[9] >>)
        /\ verify_signatures(composable[1].bundle) = "Ok"
        /\ verify_signatures(plan_built[1].bundle) = "Ok"

\* ---------------------------------------------------------------------------
\* C19: for every theta, cm and spending key, a signature made on the output
\* path (rsk = alpha) with the alpha of spend_randomizer(theta, cm) does not
\* verify against the spend rk = ak + [alpha]G, and a signature made on the
\* spend path (rsk = ask + alpha) with the alpha of output_randomizer does not
\* verify against the output rk = [alpha]G; the signatures of the own paths
\* verify.  A bundle one of whose actions carries the other path's signature
\* fails verify_signatures.
CrossPathCms == {0, 1}

C19_PathsDoNotCross ==
    /\ pc = "plan" =>
          \A theta \in Thetas : \A cm \in CrossPathCms : \A vb \in {-1, 0, 1} :
              LET ask     == derive_auth_private(sk)
                  ak      == derive_auth_public(ask)
                  alpha_s == spend_randomizer(theta, cm)
                  alpha_o == output_randomizer(theta, cm)
                  rk_s    == derive_action_public(ak, alpha_s)
                  rk_o    == derive_rk(alpha_o)
                  sh      == sighash(<< << Identity, rk_s >>, << Identity, rk_o >> >>, vb)
              IN  /\ ~ RkVerify(rk_s, sh, OutputRandomizerSign(alpha_s, sh))
                  /\ ~ RkVerify(rk_o, sh, SpendRandomizerSign(alpha_o, ask, sh))
                  /\ RkVerify(rk_s, sh, SpendRandomizerSign(alpha_s, ask, sh))
                  /\ RkVerify(rk_o, sh, OutputRandomizerSign(alpha_o, sh))
    /\ (pc \in {"done", "stripped"} /\ result = "Ok") =>
          \A i \in 1 .. Len(bundle[1].actions) :
              bundle[1].actions[i].sig
                  = OtherPathSig(plan[1].actions[i], local, BundleSighash(bundle[1]))
              => /\ ~ RkVerify(bundle[1].actions[i].rk, BundleSighash(bundle[1]),
                               bundle[1].actions[i].sig)
                 /\ verify_signatures(bundle[1]) # "Ok"

\* A bundle that verified as built; its spend action now carries the
\* signature made with rsk = alpha, its output action is untouched.
C19_Witness ==
    /\ pc = "done"
    /\ result = "Ok"
    /\ verify_signatures(built[1]) = "Ok"
    /\ Len(bundle[1].actions) = 2
    /\ plan[1].actions[1].effect = "Spend"
    /\ plan[1].actions[2].effect = "Output"
    /\ bundle[1].actions[1].sig
         = OutputRandomizerSign(WitnessAlpha(plan[1].actions[1]), BundleSighash(bundle[1]))
    /\ bundle[1].actions[2] = built[1].actions[2]
    /\ verify_signatures(bundle[1]) # "Ok"

\* ---------------------------------------------------------------------------
\* C20: for every spending key sk, ak = derive_auth_public(derive_auth_private(sk))
\* has y-sign bit 0 in its compressed encoding: when [ask]G of the PRF-derived
\* ask has sign bit 1, ask is replaced by -ask, otherwise it is kept, and the
\* final ak is the public key of the final ask.  Checked for seeds giving
\* every scalar of Fq as PRF output, and on the keys the wallet and its
\* custody hold.
SeedSamples == 0 .. (Q - 1)

SignBit(point) == PointBytes(point)[2] \div 8

C20_SignNormalization ==
    /\ pc = "plan" =>
          \A seed \in SeedSamples :
              LET raw == PrfExpandWith(PrfExpandASK, seed)
                  ask == derive_auth_private(seed)
                  ak  == derive_auth_public(ask)
              IN  /\ SignBit(ak) = 0
                  /\ SignBit(SpendAuthPublic(raw)) = 1 => ask = FqNeg(raw)
                  /\ SignBit(SpendAuthPublic(raw)) = 0 => ask = raw
                  /\ ak = ScalarMul(ask, SpendAuthG)
                  /\ ak \in {SpendAuthPublic(raw), PointNeg(SpendAuthPublic(raw))}
    /\ SignBit(derive_auth_public(local)) = 0
    /\ SignBit(derive_proof_private(sk)) = 0
    /\ plan # None =>
          \A i \in 1 .. Len(plan[1].actions) :
              plan[1].actions[i].effect = "Spend" =>
                  plan[1].actions[i].rk
                      = derive_action_public(derive_auth_public(derive_auth_private(sk)),
                                             WitnessAlpha(plan[1].actions[i]))

\* A wallet whose PRF output gives an ak with sign bit 1: custody holds the
\* negated scalar, and the bundle built with a spend verifies.
C20_Witness ==
    /\ SignBit(SpendAuthPublic(PrfExpandWith(PrfExpandASK, sk))) = 1
    /\ local = FqNeg(PrfExpandWith(PrfExpandASK, sk))
    /\ pc = "done"
    /\ result = "Ok"
    /\ bundle = built
    /\ plan[1].actions[1].effect = "Spend"
    /\ verify_signatures(built[1]) = "Ok"
\* ---------------------------------------------------------------------------
\* C21: for every entropy theta and note commitment cm the alpha of
\* spend_randomizer(theta, cm) differs from the alpha of
\* output_randomizer(theta, cm), and each is a function of (theta, cm) alone:
\* the alpha the witness of Plan::build re-derives from theta and the note is
\* the alpha the action plan's rk was made with.
C21_DomainSeparation ==
    /\ pc = "plan" =>
          \A theta \in Thetas : \A cm \in CrossPathCms :
              /\ spend_randomizer(theta, cm) # output_randomizer(theta, cm)
              /\ spend_randomizer(theta, cm)
                    = derive_alpha(SPEND_ALPHA_PERSONALIZATION, theta, cm)
              /\ output_randomizer(theta, cm)
                    = derive_alpha(OUTPUT_ALPHA_PERSONALIZATION, theta, cm)
    /\ pc = "binding_key" =>
          \A i \in 1 .. Len(actions_witnesses) :
              LET planned == plan[1].actions[i]
                  alpha   == BuildWitnesses[i].alpha
                  cm      == NoteCommitment(planned.note)
              IN  /\ planned.effect = "Spend" =>
                        /\ alpha = spend_randomizer(planned.theta, cm)
                        /\ alpha # output_randomizer(planned.theta, cm)
                        /\ planned.rk = derive_action_public(derive_proof_private(sk), alpha)
                  /\ planned.effect = "Output" =>
                        /\ alpha = output_randomizer(planned.theta, cm)
                        /\ alpha # spend_randomizer(planned.theta, cm)
                        /\ planned.rk = derive_rk(alpha)
                  /\ \A j \in 1 .. Len(actions_witnesses) :
                        ( /\ plan[1].actions[j].theta = planned.theta
                          /\ plan[1].actions[j].note = planned.note )
                        => ( BuildWitnesses[j].alpha = alpha
                               <=> plan[1].actions[j].effect = planned.effect )

\* A spend and an output of the same note and the same theta, handed to
\* Stamped::build with two different alphas.
C21_Witness ==
    /\ pc = "binding_key"
    /\ Len(actions_witnesses) = 2
    /\ plan[1].actions[1].effect = "Spend"
    /\ plan[1].actions[2].effect = "Output"
    /\ plan[1].actions[1].theta = plan[1].actions[2].theta
    /\ plan[1].actions[1].note = plan[1].actions[2].note
    /\ BuildWitnesses[1].alpha # BuildWitnesses[2].alpha
\* ---------------------------------------------------------------------------
\* C22: two actions built from the same spending key, the same note and the
\* same effect that differ only in the per-action entropy theta have distinct
\* rk values (distinct encodings), the other deterministic fields of the
\* witness being equal.  Checked on UnsignedAction::spend / output for every
\* note, every trapdoor of the samples and every pair of different thetas,
\* and on every pair of actions of a plan.
C22_ThetaUnlinkability ==
    /\ pc = "plan" =>
          \A note \in Notes : \A theta_a, theta_b \in Thetas : \A rcv \in {0, 1, Q - 1} :
              theta_a # theta_b =>
                  LET ak  == derive_proof_private(sk)
                      s_a == UnsignedActionSpend(note, theta_a, ak, rcv)
                      s_b == UnsignedActionSpend(note, theta_b, ak, rcv)
                      o_a == UnsignedActionOutput(note, theta_a, rcv)
                      o_b == UnsignedActionOutput(note, theta_b, rcv)
                  IN  /\ PointBytes(s_a[1].rk) # PointBytes(s_b[1].rk)
                      /\ PointBytes(o_a[1].rk) # PointBytes(o_b[1].rk)
                      /\ s_a[1].cv = s_b[1].cv
                      /\ o_a[1].cv = o_b[1].cv
                      /\ s_a[2].note = s_b[2].note
    /\ pc = "authorize" =>
          \A i, j \in 1 .. Len(plan[1].actions) :
              ( /\ plan[1].actions[i].effect = plan[1].actions[j].effect
                /\ plan[1].actions[i].note = plan[1].actions[j].note
                /\ plan[1].actions[i].theta # plan[1].actions[j].theta )
              => PointBytes(plan[1].actions[i].rk) # PointBytes(plan[1].actions[j].rk)

\* A plan of two spends of the same note with different thetas.
C22_Witness ==
    /\ pc = "authorize"
    /\ Len(plan[1].actions) = 2
    /\ plan[1].actions[1].effect = "Spend"
    /\ plan[1].actions[2].effect = "Spend"
    /\ plan[1].actions[1].note = plan[1].actions[2].note
    /\ plan[1].actions[1].theta # plan[1].actions[2].theta
    /\ plan[1].actions[1].rk # plan[1].actions[2].rk
\* ---------------------------------------------------------------------------
\* C23: no public operation panics on input a caller can supply.  Stated on
\* Stamped::build: for every list of (action, witness) pairs, the empty list
\* included, the build ends with a bundle or with a BuildError and never
\* reaches the failure of its "at least one action" expect.
C23_BuildNeverPanics == result # "PanicNoAction"
MaxStamps == 3

WitnessTachygrams == {1, 2, 3}

\* Proof::create: the proof and the witnesses' tachygrams, in order.
ProofCreate(actions, witnesses, anc) ==
    << "Proof", [i \in 1 .. Len(witnesses) |-> witnesses[i].tachygram] >>

\* Stamp::prove
StampProve(witnesses, actions, anc) ==
    LET created == ProofCreate(actions, witnesses, anc)
    IN  [tachygrams |-> created[2], anchor |-> anc, proof |-> created[1]]

\* The pairs a caller hands to Stamped::build: up to MaxStamps actions, each
\* witness with a tachygram of its own choice.
ReducePairs ==
    UNION {[1 .. n -> {<< [cv |-> Identity, rk |-> Identity, sig |-> GarbageSig],
                         [rcv |-> 0, note |-> [value |-> 1], alpha |-> 0,
                          tachygram |-> t] >> : t \in WitnessTachygrams}]
           : n \in 0 .. MaxStamps}

ReduceInit ==
    /\ sk = 0
    /\ local = derive_auth_private(sk)
    /\ pc = "prove"
    /\ plan = None
    /\ auth = None
    /\ anchor \in {0, 1}
    /\ actions_witnesses \in ReducePairs
    /\ bsk = 0
    /\ stamp = None
    /\ verified = "Pending"
    /\ result = "Pending"
    /\ built = None
    /\ bundle = None
    /\ stripped = None
    /\ amount = << 0, 0, 0, 1 >>
    /\ note_value = Some(amount)
    /\ value_i64 = None
    /\ negated = None
    /\ aggregate = None
    /\ agg_before = None
    /\ adjuncts = << >>
    /\ header = None
    /\ merge_log = << >>
    /\ rng = << >>
    /\ composable = None
    /\ plan_built = None
    /\ stamp_vec = << >>

\* The map over actions.iter().zip(&witnesses): one stamp per action.
BuildProveActions ==
    /\ pc = "prove"
    /\ stamp_vec' = [i \in 1 .. Len(actions_witnesses) |->
                      StampProve(<< BuildWitnesses[i] >>, << BuildActions[i] >>, anchor)]
    /\ pc' = "merge"
    /\ UNCHANGED << flow_vars, value_vars, agg_vars, sk, local, plan, auth, anchor,
                    actions_witnesses, bsk, stamp, verified, result, built, bundle, stripped >>

\* An iteration that merges the popped stamp_vec the other way round.
BuildMergeIterationSwapped ==
    /\ pc = "merge"
    /\ Len(stamp_vec) > 1
    /\ LET right  == stamp_vec[Len(stamp_vec)]
           left   == stamp_vec[Len(stamp_vec) - 1]
           merged == StampMerge(right, left)
       IN  /\ stamp_vec' = Append(SubSeq(stamp_vec, 1, Len(stamp_vec) - 2), merged)
           /\ merge_log' = Append(merge_log, [left |-> left, right |-> right, merged |-> merged])
    /\ UNCHANGED << flow_vars, value_vars, aggregate, agg_before, adjuncts, header, sk, local, pc,
                    plan, auth, anchor, actions_witnesses, bsk, stamp, verified, result, built,
                    bundle, stripped >>

\* One iteration of while stamps.len() > 1: pop right, pop left, push
\* left.prove_merge(right).
BuildMergeIteration ==
    /\ pc = "merge"
    /\ Len(stamp_vec) > 1
    /\ LET right  == stamp_vec[Len(stamp_vec)]
           left   == stamp_vec[Len(stamp_vec) - 1]
           merged == StampMerge(left, right)
       IN  /\ stamp_vec' = Append(SubSeq(stamp_vec, 1, Len(stamp_vec) - 2), merged)
           /\ merge_log' = Append(merge_log, [left |-> left, right |-> right, merged |-> merged])
    /\ UNCHANGED << flow_vars, value_vars, aggregate, agg_before, adjuncts, header, sk, local, pc,
                    plan, auth, anchor, actions_witnesses, bsk, stamp, verified, result, built,
                    bundle, stripped >>

\* stamps.pop().expect("at least one action") once the loop has ended.
BuildPopStamp ==
    /\ pc = "merge"
    /\ Len(stamp_vec) <= 1
    /\ IF stamp_vec = << >>
       THEN /\ result' = "PanicNoAction"
            /\ pc' = "done"
            /\ UNCHANGED << stamp, stamp_vec >>
       ELSE /\ stamp' = Some(stamp_vec[Len(stamp_vec)])
            /\ stamp_vec' = SubSeq(stamp_vec, 1, Len(stamp_vec) - 1)
            /\ pc' = "verify_stamp"
            /\ result' = result
    /\ UNCHANGED << flow_vars, value_vars, agg_vars, sk, local, plan, auth, anchor,
                    actions_witnesses, bsk, verified, built, bundle, stripped >>

ReduceNext == BuildProveActions \/ BuildMergeIteration \/ BuildPopStamp

ReduceSpec == ReduceInit /\ [][ReduceNext]_vars

\* The tachygrams of a list of stamp_vec, in list order.
RECURSIVE FlattenTachygrams(_)
FlattenTachygrams(list) ==
    IF list = << >> THEN << >>
    ELSE Head(list).tachygrams \o FlattenTachygrams(Tail(list))

\* The per-action tachygrams, in action order.
ActionTachygrams == [i \in 1 .. Len(actions_witnesses) |-> BuildWitnesses[i].tachygram]

\* C25: for n >= 1 actions the pairwise reduction of Stamped::build ends
\* after exactly n - 1 merges with a single stamp; every merge has the
\* earlier-indexed stamp on the left, so the stamp_vec of the vector, read in
\* order, always list the per-action tachygrams in action order; the final
\* stamp lists them one per action, in action order, and its anchor is the
\* anchor passed to build.
C25_PairwiseReduction ==
    /\ (pc = "merge" /\ Len(actions_witnesses) >= 1) =>
          /\ Len(stamp_vec) + Len(merge_log) = Len(actions_witnesses)
          /\ Len(stamp_vec) >= 1
          /\ FlattenTachygrams(stamp_vec) = ActionTachygrams
          /\ \A i \in 1 .. Len(stamp_vec) : stamp_vec[i].anchor = anchor
    /\ \A i \in 1 .. Len(merge_log) :
          /\ merge_log[i].merged.tachygrams
                = merge_log[i].left.tachygrams \o merge_log[i].right.tachygrams
          /\ Len(merge_log[i].right.tachygrams) = i
          /\ Len(merge_log[i].left.tachygrams) = 1
    /\ pc = "verify_stamp" =>
          /\ Len(merge_log) = Len(actions_witnesses) - 1
          /\ stamp_vec = << >>
          /\ stamp[1].tachygrams = ActionTachygrams
          /\ Len(stamp[1].tachygrams) = Len(actions_witnesses)
          /\ stamp[1].anchor = anchor
          /\ << stamp[1] >>
                = MergeStamps([i \in 1 .. Len(actions_witnesses) |->
                      StampProve(<< BuildWitnesses[i] >>, << BuildActions[i] >>, anchor)])

\* Three actions with three different tachygrams, not in increasing order,
\* reduced by two merges to one stamp with the anchor given to build.
C25_Witness ==
    /\ pc = "verify_stamp"
    /\ anchor = 1
    /\ ActionTachygrams = << 3, 1, 2 >>
    /\ Len(merge_log) = 2
    /\ merge_log[1].left.tachygrams = << 1 >>
    /\ merge_log[1].right.tachygrams = << 2 >>
    /\ merge_log[2].left.tachygrams = << 3 >>
    /\ stamp[1].tachygrams = << 3, 1, 2 >>
    /\ stamp[1].anchor = 1
\* ---------------------------------------------------------------------------
\* C26: Plan::commit returns exactly one (cv, rcv) pair per action plan, in
\* plan order; rcv is the trapdoor that opens cv; cv = [v]V + [rcv]R for a
\* Spend and cv = [-v]V + [rcv]R for an Output, v being the note value.  The
\* effect alone decides the sign: a spend and an output of the same note
\* have commitments whose V-components cancel.
C26_PlanCommit ==
    pc = "build" =>
        LET acts == plan[1].actions
            cms  == auth[1].commitments
        IN  /\ Len(cms) = Len(acts)
            /\ \A i \in 1 .. Len(acts) :
                   LET v   == FqFromU64(acts[i].note.value)
                       rcv == cms[i][2]
                   IN  /\ rcv \in Fq
                       /\ acts[i].effect = "Spend" =>
                              cms[i][1] = PointAdd(ScalarMul(v, VALUE_COMMIT_V),
                                                   ScalarMul(rcv, VALUE_COMMIT_R))
                       /\ acts[i].effect = "Output" =>
                              cms[i][1] = PointAdd(ScalarMul(FqNeg(v), VALUE_COMMIT_V),
                                                   ScalarMul(rcv, VALUE_COMMIT_R))
            /\ \A i, j \in 1 .. Len(acts) :
                   ( /\ acts[i].note = acts[j].note
                     /\ acts[i].effect = "Spend"
                     /\ acts[j].effect = "Output" )
                   => /\ PointAdd(cms[i][1], cms[j][1])
                           = ScalarMul(FqAdd(cms[i][2], cms[j][2]), VALUE_COMMIT_R)
                      /\ cms[i][2] = cms[j][2] => cms[i][1] # cms[j][1]

\* A committed plan: an output first, then a spend of the same note, with
\* two different non-zero trapdoors.
C26_Witness ==
    /\ pc = "build"
    /\ Len(plan[1].actions) = 2
    /\ plan[1].actions[1].effect = "Output"
    /\ plan[1].actions[2].effect = "Spend"
    /\ plan[1].actions[1].note = plan[1].actions[2].note
    /\ auth[1].commitments[1][2] = 1
    /\ auth[1].commitments[2][2] = Q - 1
    /\ auth[1].commitments[1][1]
         = PointAdd(ScalarMul(FqNeg(plan[1].actions[1].note.value), VALUE_COMMIT_V),
                    ScalarMul(1, VALUE_COMMIT_R))
    /\ auth[1].commitments[2][1] = commit(Q - 1, plan[1].actions[2].note.value)
\* ---------------------------------------------------------------------------
\* C27: every bundle Stamped::build returns as Ok passes verify_signatures,
\* for any (action, witness) pairs and value balance it is given: every
\* action signature verifies over the bundle sighash and the binding
\* signature verifies under the recomputed bvk.
C27_BuiltBundleVerifies ==
    (pc = "done" /\ result = "Ok") => verify_signatures(built[1]) = "Ok"
\* ---------------------------------------------------------------------------
\* Plan::build on authorization data of any shape.  The fields of
\* AuthorizationData are public vectors: before the build one of them is
\* shortened by its last entry or extended by one more entry.
ResizeAuth ==
    /\ pc = "build"
    /\ Len(auth[1].sigs) = Len(plan[1].actions)
    /\ Len(auth[1].commitments) = Len(plan[1].actions)
    /\ \/ /\ auth[1].sigs # << >>
          /\ auth' = Some([auth[1] EXCEPT !.sigs = SubSeq(@, 1, Len(@) - 1)])
       \/ /\ auth[1].commitments # << >>
          /\ auth' = Some([auth[1] EXCEPT !.commitments = SubSeq(@, 1, Len(@) - 1)])
       \/ auth' = Some([auth[1] EXCEPT !.sigs = Append(@, GarbageSig)])
       \/ auth' = Some([auth[1] EXCEPT !.commitments = Append(@, << commit(1, 1), 1 >>)])
    /\ UNCHANGED << stamp_vec, flow_vars, value_vars, agg_vars, verified, sk, local, pc, plan,
                    anchor, actions_witnesses, bsk, stamp, result, built, bundle, stripped >>

AuthNext ==
    \/ NewPlan
    \/ Authorize
    \/ ResizeAuth
    \/ PlanBuild
    \/ BuildBindingKey
    \/ BuildStamp
    \/ BuildVerifyStamp
    \/ BuildSign

AuthSpec == Init /\ [][AuthNext]_vars

\* C28: for any AuthorizationData, one whose sigs or commitments vector is
\* shorter or longer than the plan's action list included, a bundle that
\* Plan::build returns as Ok has exactly one action per action plan, in plan
\* order, action i carrying the rk of action plan i, the i-th signature and
\* the i-th cv.
C28_OneActionPerPlan ==
    (pc = "done" /\ result = "Ok") =>
        /\ Len(built[1].actions) = Len(plan[1].actions)
        /\ \A i \in 1 .. Len(built[1].actions) :
               /\ built[1].actions[i].rk = plan[1].actions[i].rk
               /\ built[1].actions[i].sig = auth[1].sigs[i]
               /\ built[1].actions[i].cv = auth[1].commitments[i][1]
\* What holds of Plan::build for every shape of the authorization data: the
\* bundle has as many actions as the shortest of the three lists, and action
\* i carries the rk of action plan i, the i-th signature and the i-th cv.
PairsFollowPlanOrder ==
    (pc = "done" /\ result = "Ok") =>
        /\ Len(built[1].actions)
             = Min(Min(Len(plan[1].actions), Len(auth[1].sigs)), Len(auth[1].commitments))
        /\ \A i \in 1 .. Len(built[1].actions) :
               /\ built[1].actions[i].rk = plan[1].actions[i].rk
               /\ built[1].actions[i].sig = auth[1].sigs[i]
               /\ built[1].actions[i].cv = auth[1].commitments[i][1]
\* ---------------------------------------------------------------------------
\* C29: for every signed value v whose negation is representable,
\* signed_to_scalar(v) + signed_to_scalar(-v) is the zero scalar, so a spend
\* and an output of the same amount cancel in the V-component; the
\* commitment of value 0 with the zero trapdoor, balance(0), is the identity
\* point.  Checked on the values of NegationSamples, and on every committed
\* plan: a spend and an output of the same amount add up to a multiple of R.
NegationSamples == -50 .. 50

C29_NegationCancels ==
    /\ pc = "plan" =>
          /\ \A v \in NegationSamples :
                /\ FqAdd(signed_to_scalar(v), signed_to_scalar(-v)) = 0
                /\ PointAdd(ScalarMul(signed_to_scalar(v), VALUE_COMMIT_V),
                            ScalarMul(signed_to_scalar(-v), VALUE_COMMIT_V)) = Identity
                /\ v % Q # 0 => signed_to_scalar(v) # signed_to_scalar(-v)
          /\ balance(0) = Identity
          /\ commit(0, 0) = Identity
    /\ pc = "build" =>
          \A i, j \in 1 .. Len(plan[1].actions) :
              SignedValue(plan[1].actions[i]) = -SignedValue(plan[1].actions[j])
              => PointAdd(auth[1].commitments[i][1], auth[1].commitments[j][1])
                   = PointSub(ScalarMul(FqAdd(auth[1].commitments[i][2],
                                              auth[1].commitments[j][2]), VALUE_COMMIT_R),
                              balance(0))

\* A committed plan with a spend and an output of the same amount 2 and
\* trapdoors that do not cancel: the two commitments add up to [rcv_1 + rcv_2]R.
C29_Witness ==
    /\ pc = "build"
    /\ Len(plan[1].actions) = 2
    /\ SignedValue(plan[1].actions[1]) = 2
    /\ SignedValue(plan[1].actions[2]) = -2
    /\ FqAdd(auth[1].commitments[1][2], auth[1].commitments[2][2]) = 2
    /\ PointAdd(auth[1].commitments[1][1], auth[1].commitments[2][1])
         = ScalarMul(2, VALUE_COMMIT_R)
\* ---------------------------------------------------------------------------
\* C30: for every note Value that can be constructed, converting it to i64
\* does not fail and negating the result for an output commitment does not
\* overflow: every Value is at most NOTE_VALUE_MAX, which is below 2^63, so
\* the "value fits in i64" expect is not reached.  The i64 is the number the
\* Value holds, and its negation is the two's complement of it, negative
\* unless the value is zero.
C30_ValueFitsI64 ==
    /\ U64Less(NOTE_VALUE_MAX, I64MIN)
    /\ result \notin {"PanicValueFitsInI64", "PanicNegOverflow"}
    /\ note_value # None => I64TryFromU64(note_value[1]) = note_value
    /\ value_i64 # None =>
          /\ value_i64 = note_value
          /\ value_i64[1][1] < 32768
          /\ value_i64[1] # I64MIN
    /\ negated # None =>
          /\ I64WrappingNeg(negated[1]) = value_i64[1]
          /\ value_i64[1] = << 0, 0, 0, 0 >> => negated[1] = << 0, 0, 0, 0 >>
          /\ value_i64[1] # << 0, 0, 0, 0 >> => negated[1][1] >= 32768

\* The Value of NOTE_VALUE_MAX has been converted and negated:
\* -2_100_000_000_000_000 = 0xFFF8_8A0F_A5F8_C000.
C30_Witness ==
    /\ note_value = Some(NOTE_VALUE_MAX)
    /\ value_i64 = Some(NOTE_VALUE_MAX)
    /\ negated = Some(<< 65528, 35343, 42488, 49152 >>)
====
